---- MODULE Spec2Model ----
(***************************************************************************)
(* Browser scripts of theallyco: the token countdown controllers           *)
(* (token_status_checker.js, token_timer.js, verify_account.js), the       *)
(* password checklist and the user dropdown.  A page loads one script;     *)
(* the handlers of that script are the actions.                            *)
(***************************************************************************)
EXTENDS Integers, Sequences, FiniteSets

\* ------------------------------------------------------------------ bounds
\* largest config.initialCountdown / verify_account countdown explored
MaxCountdown == 3
\* longest data-seconds attribute string explored
MaxRawLen == 2
\* longest password value explored
MaxPwLen == 9
\* most elements missing from the registration form
MaxChecklistMissing == 1
\* most steps of the clock explored on a page with the auto-logout script
MaxElapses == 3
\* most activity events explored on a page with the auto-logout script
MaxActivity == 2
\* most fingers on the eye icon at once
MaxTouches == 2
\* longest answer to the confirmation prompt explored
MaxLineLen == 2
\* longest commit message and tag name explored
MaxNameLen == 1

\* ------------------------------------------------------- program constants
DefaultSeconds == 180
VerifyAccountSeconds == 60
MinPasswordLength == 8

\* ------------------------------------------------------------ page scripts
TSC == "token_status_checker.js"
TT == "token_timer.js"
VA == "verify_account.js"
PC == "password_checklist.js"
UD == "user-dropdown.js"
AL == "auto_logout.js"
LG == "login.js"
EP == "entrypoint.sh"
CT == "commit_tag.sh"
Scripts == {TSC, TT, VA, PC, UD, AL, LG, EP, CT}

\* ----------------------------------------------------------------- the DOM
TscIds == {"verification_code", "verify-code-button", "resend-code-button",
           "countdown-timer"}
TtIds == {"token-timer", "resend-btn", "verify-btn"}
VaIds == {"timer", "resendButton"}
ChecklistKeys == <<"length", "uppercase", "lowercase", "number", "symbol">>
CheckId(key) == CASE key = "length" -> "check-length"
                  [] key = "uppercase" -> "check-uppercase"
                  [] key = "lowercase" -> "check-lowercase"
                  [] key = "number" -> "check-number"
                  [] key = "symbol" -> "check-symbol"
PcIds == {"id_password1", "password-checklist"}
           \cup {CheckId(ChecklistKeys[i]) : i \in 1..5}
UdIds == {"user-dropdown", ".user-avatar"}
LgIds == {"id_password", "togglePassword"}

Ids(sc) == CASE sc = TSC -> TscIds
             [] sc = TT -> TtIds
             [] sc = VA -> VaIds
             [] sc = PC -> PcIds
             [] sc = UD -> UdIds
             [] sc = LG -> LgIds
             [] OTHER -> {}

\* the elements whose disabled property a script reads or writes
Controls(sc) == CASE sc = TSC -> TscIds \ {"countdown-timer"}
                  [] sc = TT -> {"resend-btn", "verify-btn"}
                  [] sc = VA -> {"resendButton"}
                  [] OTHER -> {}

\* text the server rendered into an element before any script ran
ServerText == <<"server-rendered">>

VARIABLES
  script,            \* the script the page loads
  pc,                \* "script": body not evaluated, "loaded": waiting for
                     \* the load event / the call, "running": initialized
  present,           \* ids of the elements that exist in the page
  disabled,          \* id -> the element's disabled property
  disabled0,         \* id -> the disabled attribute of the served HTML
  text,              \* id -> innerText / textContent
  classes,           \* id -> classList
  styleDisplay,      \* style.display of the checklist container
  value,             \* value of the password field
  error,             \* some handler ended in an uncaught TypeError
  ticks,             \* timer callbacks run so far
  config,            \* argument of initTokenStatusChecker
  state,             \* token_status_checker.js: state
  countdownInterval, \* token_status_checker.js: interval handle
  countdownRaw,      \* token_timer.js: dataset.seconds
  countdown,         \* token_timer.js: countdown
  timerInterval,     \* token_timer.js: interval handle
  warnings,          \* token_timer.js: warning divs appended to the parent
  vaCountdown,       \* verify_account.js: countdown
  vaPending,         \* verify_account.js: timeouts scheduled and not yet run
  asDefault,         \* the token_timer.js controller this page would run
                     \* with data-seconds="180", driven by the same events
  allPresent,        \* the controller this page would run if every element
                     \* the script looks up existed, driven by the same events
  vaSeconds,         \* verify_account.js: the value countdown is declared with
  logout,            \* auto_logout.js: clock, timers and inactivityTimer
  login,             \* login.js: the password field and the presses on the icon
  shell              \* the shell scripts: position, answers, commands run

vars == <<script, pc, present, disabled, disabled0, text, classes,
          styleDisplay, value, error, ticks, config, state,
          countdownInterval, countdownRaw, countdown, timerInterval,
          warnings, vaCountdown, vaPending, asDefault, allPresent,
          vaSeconds, logout, login, shell>>

\* the state of the scripts added to the countdown pages
others == <<vaSeconds, logout, login, shell>>

NoLogout == <<>>
NoLogin == <<>>
NoShell == <<>>

\* the two comparison controllers
twins == <<asDefault, allPresent>>
NoTwin == <<>>

\* ------------------------------------------------- number <-> string models
DigitChars == <<"0", "1", "2", "3", "4", "5", "6", "7", "8", "9">>
IsDigit(c) == \E i \in 1..10 : DigitChars[i] = c
DigitVal(c) == (CHOOSE i \in 1..10 : DigitChars[i] = c) - 1

RECURSIVE NatToString(_)
NatToString(n) ==
  IF n < 10 THEN <<DigitChars[n + 1]>>
  ELSE NatToString(n \div 10) \o <<DigitChars[(n % 10) + 1]>>

\* Number.prototype.toString / string coercion of an integer
toString(n) == IF n < 0 THEN <<"-">> \o NatToString(0 - n) ELSE NatToString(n)

RECURSIVE padStart(_, _, _)
padStart(s, len, c) == IF Len(s) >= len THEN s ELSE padStart(<<c>> \o s, len, c)

\* ------------------------------------------------ token_status_checker.js
Countdowns == (0 - 1)..MaxCountdown
Configs == [canVerify : BOOLEAN, canResend : BOOLEAN, isExpired : BOOLEAN,
            initialCountdown : Countdowns]
NoConfig == [canVerify |-> FALSE, canResend |-> FALSE, isExpired |-> FALSE,
             initialCountdown |-> 0]
NoState == [canVerify |-> FALSE, canResend |-> FALSE, isExpired |-> FALSE,
            timeLeft |-> 0]

\* updateUI returning at the first missing element
updateUIEarlyReturn(s, pres) ==
  IF "verification_code" \notin pres THEN s
  ELSE LET s1 == [s EXCEPT !.disabled["verification_code"] = ~s.state.canVerify]
       IN IF "verify-code-button" \notin pres THEN s1
          ELSE LET s2 == [s1 EXCEPT !.disabled["verify-code-button"] =
                                       ~s.state.canVerify]
               IN IF "resend-code-button" \notin pres THEN s2
                  ELSE [s2 EXCEPT !.disabled["resend-code-button"] =
                                     ~s.state.canResend]

\* a controller snapshot: s.state, s.countdownInterval, s.disabled, s.text
updateUI(s, pres) ==
  LET s1 == IF "verification_code" \in pres
            THEN [s EXCEPT !.disabled["verification_code"] = ~s.state.canVerify]
            ELSE s
      s2 == IF "verify-code-button" \in pres
            THEN [s1 EXCEPT !.disabled["verify-code-button"] = ~s.state.canVerify]
            ELSE s1
  IN IF "resend-code-button" \in pres
     THEN [s2 EXCEPT !.disabled["resend-code-button"] = ~s.state.canResend]
     ELSE s2

clearInterval(handle) == IF handle = "active" THEN "cleared" ELSE handle

startCountdown(s, pres) ==
  LET s0 == [s EXCEPT !.countdownInterval = clearInterval(@)]
  IN IF s0.state.timeLeft <= 0
     THEN updateUI(IF "countdown-timer" \in pres
                   THEN [s0 EXCEPT !.text["countdown-timer"] = <<"0">>]
                   ELSE s0, pres)
     ELSE [s0 EXCEPT !.countdownInterval = "active"]

\* countdownTick taking two seconds off per callback
countdownTickByTwo(s, pres) ==
  LET s1 == [s EXCEPT !.state.timeLeft = @ - 2]
      s2 == IF "countdown-timer" \in pres
            THEN [s1 EXCEPT !.text["countdown-timer"] = toString(s1.state.timeLeft)]
            ELSE s1
  IN IF s2.state.timeLeft <= 0
     THEN updateUI([s2 EXCEPT !.countdownInterval = clearInterval(@),
                              !.state.isExpired = TRUE,
                              !.state.canVerify = FALSE,
                              !.state.canResend = TRUE], pres)
     ELSE s2

\* countdownTick leaving the interval running at expiry
countdownTickNoClear(s, pres) ==
  LET s1 == [s EXCEPT !.state.timeLeft = @ - 1]
      s2 == IF "countdown-timer" \in pres
            THEN [s1 EXCEPT !.text["countdown-timer"] = toString(s1.state.timeLeft)]
            ELSE s1
  IN IF s2.state.timeLeft <= 0
     THEN updateUI([s2 EXCEPT !.countdownInterval = @,
                              !.state.isExpired = TRUE,
                              !.state.canVerify = FALSE,
                              !.state.canResend = TRUE], pres)
     ELSE s2

\* countdownTick leaving canVerify as it was at expiry
countdownTickKeepsVerify(s, pres) ==
  LET s1 == [s EXCEPT !.state.timeLeft = @ - 1]
      s2 == IF "countdown-timer" \in pres
            THEN [s1 EXCEPT !.text["countdown-timer"] = toString(s1.state.timeLeft)]
            ELSE s1
  IN IF s2.state.timeLeft <= 0
     THEN updateUI([s2 EXCEPT !.countdownInterval = clearInterval(@),
                              !.state.isExpired = TRUE,
                              !.state.canVerify = @,
                              !.state.canResend = TRUE], pres)
     ELSE s2

\* the callback startCountdown hands to setInterval
countdownTick(s, pres) ==
  LET s1 == [s EXCEPT !.state.timeLeft = @ - 1]
      s2 == IF "countdown-timer" \in pres
            THEN [s1 EXCEPT !.text["countdown-timer"] = toString(s1.state.timeLeft)]
            ELSE s1
  IN IF s2.state.timeLeft <= 0
     THEN updateUI([s2 EXCEPT !.countdownInterval = clearInterval(@),
                              !.state.isExpired = TRUE,
                              !.state.canVerify = FALSE,
                              !.state.canResend = TRUE], pres)
     ELSE s2

\* the closure of initTokenStatusChecker right after its declarations
tscNew(cfg, dis, txt) ==
  [state |-> [canVerify |-> cfg.canVerify, canResend |-> cfg.canResend,
              isExpired |-> cfg.isExpired, timeLeft |-> cfg.initialCountdown],
   countdownInterval |-> "undefined",
   disabled |-> dis,
   text |-> txt]

tscInit(cfg, pres, dis, txt) ==
  startCountdown(updateUI(tscNew(cfg, dis, txt), pres), pres)

tscNow == [state |-> state, countdownInterval |-> countdownInterval,
           disabled |-> disabled, text |-> text]

tscSet(s) ==
  /\ state' = s.state
  /\ countdownInterval' = s.countdownInterval
  /\ disabled' = s.disabled
  /\ text' = s.text

initTokenStatusChecker ==
  /\ script = TSC
  /\ pc = "loaded"
  /\ tscSet(tscInit(config, present, disabled, text))
  /\ pc' = "running"
  /\ UNCHANGED <<script, present, disabled0, classes, styleDisplay, value,
                 error, ticks, config, countdownRaw, countdown, timerInterval,
                 warnings, vaCountdown, vaPending>>
  /\ allPresent' = tscInit(config, TscIds, disabled, text)
  /\ UNCHANGED asDefault
  /\ UNCHANGED others

tscInterval ==
  /\ script = TSC
  /\ pc = "running"
  /\ countdownInterval = "active"
  /\ tscSet(countdownTick(tscNow, present))
  /\ ticks' = ticks + 1
  /\ UNCHANGED <<script, pc, present, disabled0, classes, styleDisplay, value,
                 error, config, countdownRaw, countdown, timerInterval,
                 warnings, vaCountdown, vaPending>>
  /\ allPresent' = IF allPresent.countdownInterval = "active"
                   THEN countdownTick(allPresent, TscIds)
                   ELSE allPresent
  /\ UNCHANGED asDefault
  /\ UNCHANGED others

\* ---------------------------------------------------------- token_timer.js
\* characters of the data-seconds attribute
RawChars == {"0", "2", "-", "a"}
\* dataset.seconds of a missing element or attribute; parseInt sees "undefined"
Undefined == <<"undefined">>
RawValues == UNION {[1..k -> RawChars] : k \in 0..MaxRawLen} \cup {Undefined}

NaN == [nan |-> TRUE, num |-> 0]
Number(n) == [nan |-> FALSE, num |-> n]
isNaN(x) == x.nan

IsWhite(c) == c = " "

RECURSIVE trimStart(_)
trimStart(str) ==
  IF str # <<>> /\ IsWhite(Head(str)) THEN trimStart(Tail(str)) ELSE str

RECURSIVE digitPrefix(_)
digitPrefix(str) ==
  IF str # <<>> /\ IsDigit(Head(str))
  THEN <<Head(str)>> \o digitPrefix(Tail(str))
  ELSE <<>>

RECURSIVE decimalValue(_, _)
decimalValue(ds, acc) ==
  IF ds = <<>> THEN acc
  ELSE decimalValue(Tail(ds), (acc * 10) + DigitVal(Head(ds)))

\* parseInt(str, 10): leading white space, an optional sign, then the longest
\* run of decimal digits; NaN when that run is empty
parseInt(str) ==
  LET t == trimStart(str)
      neg == t # <<>> /\ Head(t) = "-"
      u == IF t # <<>> /\ Head(t) \in {"+", "-"} THEN Tail(t) ELSE t
      ds == digitPrefix(u)
  IN IF ds = <<>> THEN NaN
     ELSE Number(IF neg THEN 0 - decimalValue(ds, 0) ELSE decimalValue(ds, 0))

\* parseCountdown falling back to the verify_account duration
parseCountdownShort(raw) ==
  LET c == parseInt(raw) IN IF isNaN(c) THEN VerifyAccountSeconds ELSE c.num

\* parseCountdown rejecting every value that is not a non-negative integer
parseCountdownStrict(raw) ==
  LET c == parseInt(raw) IN IF isNaN(c) \/ c.num < 0 \/ raw # toString(c.num) THEN DefaultSeconds ELSE c.num

\* the script body: countdown from countdownRaw
parseCountdown(raw) ==
  LET c == parseInt(raw) IN IF isNaN(c) THEN DefaultSeconds ELSE c.num

ExpiredMessage == <<"Token invalid or expired - please request a new code.">>

timeText(c) ==
  <<"Token expires in ">> \o toString(c \div 60) \o <<":">>
     \o padStart(toString(c % 60), 2, "0") \o <<" seconds">>

\* updateTimer expiring only below zero
updateTimerLate(s, pres) ==
  IF "token-timer" \notin pres THEN s
  ELSE IF s.countdown < 0
  THEN LET s1 == [s EXCEPT !.timerInterval = clearInterval(@),
                           !.text["token-timer"] = ExpiredMessage,
                           !.warnings = @ + 1]
           s2 == IF "resend-btn" \in pres
                 THEN [s1 EXCEPT
                         !.disabled["resend-btn"] = FALSE,
                         !.classes["resend-btn"] =
                            (@ \ {"btn-resend-disabled"}) \cup {"btn-resend-active"},
                         !.text["resend-btn"] = <<"Re-send Code">>]
                 ELSE s1
       IN IF "verify-btn" \in pres
          THEN [s2 EXCEPT !.disabled["verify-btn"] = TRUE,
                          !.classes["verify-btn"] = @ \cup {"btn-verify-disabled"}]
          ELSE s2
  ELSE [s EXCEPT !.text["token-timer"] = timeText(s.countdown),
                 !.countdown = @ - 1]

\* a controller snapshot: s.countdown, s.timerInterval, s.warnings,
\* s.disabled, s.text, s.classes
updateTimer(s, pres) ==
  IF "token-timer" \notin pres THEN s
  ELSE IF s.countdown <= 0
  THEN LET s1 == [s EXCEPT !.timerInterval = clearInterval(@),
                           !.text["token-timer"] = ExpiredMessage,
                           !.warnings = @ + 1]
           s2 == IF "resend-btn" \in pres
                 THEN [s1 EXCEPT
                         !.disabled["resend-btn"] = FALSE,
                         !.classes["resend-btn"] =
                            (@ \ {"btn-resend-disabled"}) \cup {"btn-resend-active"},
                         !.text["resend-btn"] = <<"Re-send Code">>]
                 ELSE s1
       IN IF "verify-btn" \in pres
          THEN [s2 EXCEPT !.disabled["verify-btn"] = TRUE,
                          !.classes["verify-btn"] = @ \cup {"btn-verify-disabled"}]
          ELSE s2
  ELSE [s EXCEPT !.text["token-timer"] = timeText(s.countdown),
                 !.countdown = @ - 1]

ttInit(s, pres) ==
  IF "token-timer" \notin pres THEN s
  ELSE LET s1 == IF "resend-btn" \in pres
                 THEN [s EXCEPT !.disabled["resend-btn"] = TRUE,
                                !.classes["resend-btn"] = @ \cup {"btn-resend-disabled"}]
                 ELSE s
           s2 == IF "verify-btn" \in pres
                 THEN [s1 EXCEPT !.disabled["verify-btn"] = FALSE,
                                 !.classes["verify-btn"] = @ \ {"btn-verify-disabled"}]
                 ELSE s1
       IN [updateTimer(s2, pres) EXCEPT !.timerInterval = "active"]

\* the globals of token_timer.js once the script body has run
ttNew(raw, dis, txt, cls) ==
  [countdown |-> parseCountdown(raw), timerInterval |-> "undefined",
   warnings |-> 0, disabled |-> dis, text |-> txt, classes |-> cls]

\* one interval period of a controller: the callback runs if it is scheduled
runInterval(s, pres) ==
  IF s.timerInterval = "active" THEN updateTimer(s, pres) ELSE s

ttNow == [countdown |-> countdown, timerInterval |-> timerInterval,
          warnings |-> warnings, disabled |-> disabled, text |-> text,
          classes |-> classes]

ttSet(s) ==
  /\ countdown' = s.countdown
  /\ timerInterval' = s.timerInterval
  /\ warnings' = s.warnings
  /\ disabled' = s.disabled
  /\ text' = s.text
  /\ classes' = s.classes

\* lines 9-15, run when the script is loaded
tokenTimerScript ==
  /\ script = TT
  /\ pc = "script"
  /\ countdown' = parseCountdown(countdownRaw)
  /\ pc' = "loaded"
  /\ UNCHANGED <<script, present, disabled, disabled0, text, classes,
                 styleDisplay, value, error, ticks, config, state,
                 countdownInterval, countdownRaw, timerInterval, warnings,
                 vaCountdown, vaPending>>
  /\ asDefault' = ttNew(<<"1", "8", "0">>, disabled, text, classes)
  /\ allPresent' = ttNew(countdownRaw, disabled, text, classes)
  /\ UNCHANGED others

\* the DOMContentLoaded listener
initTokenTimer ==
  /\ script = TT
  /\ pc = "loaded"
  /\ ttSet(ttInit(ttNow, present))
  /\ pc' = "running"
  /\ UNCHANGED <<script, present, disabled0, styleDisplay, value, error, ticks,
                 config, state, countdownInterval, countdownRaw, vaCountdown,
                 vaPending>>
  /\ asDefault' = ttInit(asDefault, present)
  /\ allPresent' = ttInit(allPresent, TtIds)
  /\ UNCHANGED others

\* updateTimer as the interval callback
ttInterval ==
  /\ script = TT
  /\ pc = "running"
  /\ timerInterval = "active"
  /\ ttSet(updateTimer(ttNow, present))
  /\ ticks' = ticks + 1
  /\ UNCHANGED <<script, pc, present, disabled0, styleDisplay, value, error,
                 config, state, countdownInterval, countdownRaw, vaCountdown,
                 vaPending>>
  /\ asDefault' = runInterval(asDefault, present)
  /\ allPresent' = runInterval(allPresent, TtIds)
  /\ UNCHANGED others

\* ------------------------------------------------------- verify_account.js
VaCountdowns == 0..MaxCountdown \cup {VerifyAccountSeconds}

vaTimeText(c) ==
  toString(c \div 60) \o <<":">> \o (IF c % 60 < 10 THEN <<"0">> ELSE <<>>)
     \o toString(c % 60)

\* vaUpdateTimer counting down while countdown >= 0
vaUpdateTimerOffByOne(s, pres) ==
  IF "timer" \notin pres THEN [s EXCEPT !.thrown = TRUE]
  ELSE LET s1 == [s EXCEPT !.text["timer"] = vaTimeText(s.countdown)]
       IN IF s1.countdown >= 0
          THEN [s1 EXCEPT !.countdown = @ - 1, !.pending = @ + 1]
          ELSE LET s2 == [s1 EXCEPT !.text["timer"] =
                                       <<"You can now re-send the code.">>]
               IN IF "resendButton" \in pres
                  THEN [s2 EXCEPT !.disabled["resendButton"] = FALSE]
                  ELSE s2

\* a controller snapshot: s.countdown, s.pending, s.disabled, s.text and
\* s.thrown, set when the call ends in a TypeError
vaUpdateTimer(s, pres) ==
  IF "timer" \notin pres THEN [s EXCEPT !.thrown = TRUE]
  ELSE LET s1 == [s EXCEPT !.text["timer"] = vaTimeText(s.countdown)]
       IN IF s1.countdown > 0
          THEN [s1 EXCEPT !.countdown = @ - 1, !.pending = @ + 1]
          ELSE LET s2 == [s1 EXCEPT !.text["timer"] =
                                       <<"You can now re-send the code.">>]
               IN IF "resendButton" \in pres
                  THEN [s2 EXCEPT !.disabled["resendButton"] = FALSE]
                  ELSE s2

\* vaInit leaving the resend button as the page rendered it
vaInitEnabled(s, pres) ==
  vaUpdateTimer(s, pres)

vaInit(s, pres) ==
  vaUpdateTimer(IF "resendButton" \in pres
                THEN [s EXCEPT !.disabled["resendButton"] = TRUE]
                ELSE s, pres)

vaNow == [countdown |-> vaCountdown, pending |-> vaPending,
          disabled |-> disabled, text |-> text, thrown |-> FALSE]

vaSet(s) ==
  /\ vaCountdown' = s.countdown
  /\ vaPending' = s.pending
  /\ disabled' = s.disabled
  /\ text' = s.text
  /\ error' = (error \/ s.thrown)

\* window.onload
initVerifyAccountFlow ==
  /\ script = VA
  /\ pc = "loaded"
  /\ vaSet(vaInit(vaNow, present))
  /\ pc' = "running"
  /\ UNCHANGED <<script, present, disabled0, classes, styleDisplay, value,
                 ticks, config, state, countdownInterval, countdownRaw,
                 countdown, timerInterval, warnings>>
  /\ UNCHANGED twins
  /\ UNCHANGED others

\* updateTimer as the setTimeout callback
vaTimeout ==
  /\ script = VA
  /\ pc = "running"
  /\ vaPending > 0
  /\ vaSet(vaUpdateTimer([vaNow EXCEPT !.pending = @ - 1], present))
  /\ ticks' = ticks + 1
  /\ UNCHANGED <<script, pc, present, disabled0, classes, styleDisplay, value,
                 config, state, countdownInterval, countdownRaw, countdown,
                 timerInterval, warnings>>
  /\ UNCHANGED twins
  /\ UNCHANGED others

\* --------------------------------------------------- password_checklist.js
UpperCase == {"A", "B", "C", "D", "E", "F", "G", "H", "I", "J", "K", "L", "M",
              "N", "O", "P", "Q", "R", "S", "T", "U", "V", "W", "X", "Y", "Z"}
LowerCase == {"a", "b", "c", "d", "e", "f", "g", "h", "i", "j", "k", "l", "m",
              "n", "o", "p", "q", "r", "s", "t", "u", "v", "w", "x", "y", "z"}

IsUpper(c) == c \in UpperCase
IsLower(c) == c \in LowerCase
IsSymbol(c) == ~(IsUpper(c) \/ IsLower(c) \/ IsDigit(c))

\* whether character c is in the character class of the regular expression
matches(re, c) == CASE re = "[A-Z]" -> IsUpper(c)
                    [] re = "[a-z]" -> IsLower(c)
                    [] re = "\\d" -> IsDigit(c)
                    [] re = "[^A-Za-z0-9]" -> IsSymbol(c)

\* RegExp.prototype.test for a one-character class
test(re, val) == \E i \in 1..Len(val) : matches(re, val[i])

rules(val) ==
  [key \in {ChecklistKeys[i] : i \in 1..5} |->
     CASE key = "length" -> Len(val) >= MinPasswordLength
       [] key = "uppercase" -> test("[A-Z]", val)
       [] key = "lowercase" -> test("[a-z]", val)
       [] key = "number" -> test("\\d", val)
       [] key = "symbol" -> test("[^A-Za-z0-9]", val)]

allValid(rs) == \A key \in DOMAIN rs : rs[key]

RECURSIVE toggleItems(_, _, _, _)
\* the for..of loop over Object.entries(rules), from entry i on
toggleItems(s, rs, pres, i) ==
  IF i > Len(ChecklistKeys) THEN s
  ELSE LET key == ChecklistKeys[i]
       IN IF CheckId(key) \notin pres THEN [s EXCEPT !.thrown = TRUE]
          ELSE toggleItems(
                 [s EXCEPT !.classes[CheckId(key)] =
                             IF rs[key] THEN @ \cup {"valid"} ELSE @ \ {"valid"}],
                 rs, pres, i + 1)

\* onInput hiding the checklist for good
onInputNeverShows(s, val, pres) ==
  LET rs == rules(val)
      s1 == toggleItems(s, rs, pres, 1)
  IN IF s1.thrown THEN s1
     ELSE IF "password-checklist" \notin pres THEN [s1 EXCEPT !.thrown = TRUE]
     ELSE [s1 EXCEPT !.styleDisplay = IF allValid(rs) THEN "none" ELSE @]

\* the input listener on a snapshot: s.classes, s.styleDisplay, s.thrown
onInput(s, val, pres) ==
  LET rs == rules(val)
      s1 == toggleItems(s, rs, pres, 1)
  IN IF s1.thrown THEN s1
     ELSE IF "password-checklist" \notin pres THEN [s1 EXCEPT !.thrown = TRUE]
     ELSE [s1 EXCEPT !.styleDisplay = IF allValid(rs) THEN "none" ELSE "block"]

PwOrder == <<"A", "a", "1", "#">>
seqOf(S) == SelectSeq(PwOrder, LAMBDA c : c \in S)
padTo(str, len) ==
  IF str = <<>> \/ Len(str) >= len THEN str
  ELSE str \o [i \in 1..(len - Len(str)) |-> str[Len(str)]]
\* the values typed into the password field
PasswordValues ==
  {padTo(seqOf(S), len) : S \in SUBSET {PwOrder[i] : i \in 1..4},
                          len \in 0..MaxPwLen}

\* the DOMContentLoaded listener
passwordChecklistLoaded ==
  /\ script = PC
  /\ pc = "loaded"
  /\ pc' = "running"
  /\ UNCHANGED <<script, present, disabled, disabled0, text, classes,
                 styleDisplay, value, error, ticks, config, state,
                 countdownInterval, countdownRaw, countdown, timerInterval,
                 warnings, vaCountdown, vaPending>>
  /\ UNCHANGED twins
  /\ UNCHANGED others

\* the user edits the field and the input listener runs
passwordInput ==
  /\ script = PC
  /\ pc = "running"
  /\ "id_password1" \in present
  /\ \E val \in PasswordValues :
       LET s == onInput([classes |-> classes, styleDisplay |-> styleDisplay,
                         thrown |-> FALSE], val, present)
       IN /\ value' = val
          /\ classes' = s.classes
          /\ styleDisplay' = s.styleDisplay
          /\ error' = (error \/ s.thrown)
  /\ UNCHANGED <<script, pc, present, disabled, disabled0, text, ticks, config,
                 state, countdownInterval, countdownRaw, countdown,
                 timerInterval, warnings, vaCountdown, vaPending>>
  /\ UNCHANGED twins
  /\ UNCHANGED others

\* -------------------------------------------------------- user-dropdown.js
\* where a click lands: inside the dropdown, inside the avatar, elsewhere
ClickTargets == {"user-dropdown", ".user-avatar", "body"}

\* s.classes, s.thrown
toggleMenu(s, pres) ==
  IF "user-dropdown" \notin pres THEN [s EXCEPT !.thrown = TRUE]
  ELSE [s EXCEPT !.classes["user-dropdown"] =
                   IF "hidden" \in @ THEN @ \ {"hidden"} ELSE @ \cup {"hidden"}]

onDocumentClick(s, target, pres) ==
  IF "user-dropdown" \notin pres THEN [s EXCEPT !.thrown = TRUE]
  ELSE IF target = "user-dropdown" THEN s
  ELSE IF ".user-avatar" \notin pres THEN [s EXCEPT !.thrown = TRUE]
  ELSE IF target # ".user-avatar"
  THEN [s EXCEPT !.classes["user-dropdown"] = @ \cup {"hidden"}]
  ELSE s

toggleUserMenu ==
  /\ script = UD
  /\ pc = "running"
  /\ LET s == toggleMenu([classes |-> classes, thrown |-> FALSE], present)
     IN /\ classes' = s.classes
        /\ error' = (error \/ s.thrown)
  /\ UNCHANGED <<script, pc, present, disabled, disabled0, text, styleDisplay,
                 value, ticks, config, state, countdownInterval, countdownRaw,
                 countdown, timerInterval, warnings, vaCountdown, vaPending>>
  /\ UNCHANGED twins
  /\ UNCHANGED others

documentClick ==
  /\ script = UD
  /\ pc = "running"
  /\ \E target \in ClickTargets :
       /\ target \in present \cup {"body"}
       /\ LET s == onDocumentClick([classes |-> classes, thrown |-> FALSE],
                                   target, present)
          IN /\ classes' = s.classes
             /\ error' = (error \/ s.thrown)
  /\ UNCHANGED <<script, pc, present, disabled, disabled0, text, styleDisplay,
                 value, ticks, config, state, countdownInterval, countdownRaw,
                 countdown, timerInterval, warnings, vaCountdown, vaPending>>
  /\ UNCHANGED twins
  /\ UNCHANGED others

\* -------------------------------------------------------- auto-logout script
inactivityLimit == 15 * 60 * 1000

LogoutUrl == "/users/logout/?auto=1"

ActivityEvents ==
  {"mousemove", "keydown", "click", "scroll", "touchstart", "touchmove"}

\* the steps of the clock explored, in milliseconds
Delays == {1, inactivityLimit - 1, inactivityLimit}

\* before the load event: no timeout, no listener
logoutStart ==
  [now |-> 0, timeouts |-> {}, nextId |-> 1, inactivityTimer |-> 0,
   listening |-> FALSE, href |-> "", lastActivity |-> 0,
   elapses |-> 0, events |-> 0]

\* clearTimeout(id): an unknown or undefined id is ignored
clearTimeout(lo, id) ==
  [lo EXCEPT !.timeouts = {t \in @ : t.id # id}]

\* setTimeout(callback, delay): the new timeout and its id
setTimeout(lo, delay) ==
  [lo EXCEPT !.timeouts = @ \cup {[id |-> lo.nextId, due |-> lo.now + delay]},
             !.nextId = @ + 1]

\* resetTimer that leaves the previous timeout pending
resetTimerNoClear(lo) ==
  [setTimeout(lo, inactivityLimit)
     EXCEPT !.inactivityTimer = lo.nextId]

resetTimer(lo) ==
  [setTimeout(clearTimeout(lo, lo.inactivityTimer), inactivityLimit)
     EXCEPT !.inactivityTimer = lo.nextId]

attachListeners(lo) == [lo EXCEPT !.listening = TRUE]

\* the variables the auto-logout script does not touch
notLogout == <<script, present, disabled, disabled0, text, classes,
               styleDisplay, value, error, ticks, config, state,
               countdownInterval, countdownRaw, countdown, timerInterval,
               warnings, vaCountdown, vaPending, asDefault, allPresent,
               vaSeconds, login, shell>>

\* window load
autoLogoutLoad ==
  /\ script = AL
  /\ pc = "loaded"
  /\ pc' = "running"
  /\ logout' = [attachListeners(resetTimer(logout))
                  EXCEPT !.lastActivity = logout.now]
  /\ UNCHANGED notLogout

\* time passes on the page
autoLogoutElapse ==
  /\ script = AL
  /\ logout.href = ""
  /\ logout.elapses < MaxElapses
  /\ \E d \in Delays :
       logout' = [logout EXCEPT !.now = @ + d, !.elapses = @ + 1]
  /\ UNCHANGED <<pc, notLogout>>

\* one of the activity events reaches the document
autoLogoutActivity ==
  /\ script = AL
  /\ logout.href = ""
  /\ logout.listening
  /\ logout.events < MaxActivity
  /\ \E ev \in ActivityEvents :
       logout' = [resetTimer(logout) EXCEPT !.lastActivity = logout.now,
                                            !.events = @ + 1]
  /\ UNCHANGED <<pc, notLogout>>

\* a pending timeout that is due runs its callback
autoLogoutTimeout ==
  /\ script = AL
  /\ logout.href = ""
  /\ \E t \in logout.timeouts :
       /\ t.due <= logout.now
       /\ logout' = [logout EXCEPT !.timeouts = @ \ {t}, !.href = LogoutUrl]
  /\ UNCHANGED <<pc, notLogout>>

\* ------------------------------------------------- login.js (press and hold)
\* the input as rendered, before any listener ran
loginStart == [type |-> "password", listening |-> FALSE, mouse |-> FALSE,
               touches |-> 0]

\* passwordInput.type = t, when the listeners were attached
setType(lg, t) == IF lg.listening THEN [lg EXCEPT !.type = t] ELSE lg

\* the variables login.js does not touch
notLogin == <<script, present, disabled, disabled0, text, classes,
              styleDisplay, value, error, ticks, config, state,
              countdownInterval, countdownRaw, countdown, timerInterval,
              warnings, vaCountdown, vaPending, asDefault, allPresent,
              vaSeconds, logout, shell>>

\* DOMContentLoaded
loginLoaded ==
  /\ script = LG
  /\ pc = "loaded"
  /\ pc' = "running"
  /\ login' = [login EXCEPT !.listening = LgIds \subseteq present]
  /\ UNCHANGED notLogin

mousedown ==
  /\ script = LG /\ pc = "running"
  /\ "togglePassword" \in present
  /\ ~login.mouse
  /\ login' = [setType(login, "text") EXCEPT !.mouse = TRUE]
  /\ UNCHANGED <<pc, notLogin>>

mouseup ==
  /\ script = LG /\ pc = "running"
  /\ "togglePassword" \in present
  /\ login' = [setType(login, "password") EXCEPT !.mouse = FALSE]
  /\ UNCHANGED <<pc, notLogin>>

\* the pointer leaves the icon, with the button held or not
mouseleave ==
  /\ script = LG /\ pc = "running"
  /\ "togglePassword" \in present
  /\ login' = [setType(login, "password") EXCEPT !.mouse = FALSE]
  /\ UNCHANGED <<pc, notLogin>>

touchstart ==
  /\ script = LG /\ pc = "running"
  /\ "togglePassword" \in present
  /\ login.touches < MaxTouches
  /\ login' = [setType(login, "text") EXCEPT !.touches = @ + 1]
  /\ UNCHANGED <<pc, notLogin>>

touchend ==
  /\ script = LG /\ pc = "running"
  /\ login.touches > 0
  /\ login' = [setType(login, "password") EXCEPT !.touches = @ - 1]
  /\ UNCHANGED <<pc, notLogin>>

\* the system takes a touch away; the script has no listener for it
touchcancel ==
  /\ script = LG /\ pc = "running"
  /\ login.touches > 0
  /\ login' = [login EXCEPT !.touches = @ - 1]
  /\ UNCHANGED <<pc, notLogin>>

\* --------------------------------------------------------- shell scripts
\* exit statuses a command may end with
ExitStatuses == {0, 1}

\* the lines a user types over the given characters
TypedLines(chars, len) == UNION {[1..k -> chars] : k \in 0..len}

RECURSIVE trimBlanks(_)
\* IFS white space at both ends of a line
trimBlanks(line) ==
  IF line # <<>> /\ Head(line) = " " THEN trimBlanks(Tail(line))
  ELSE IF line # <<>> /\ line[Len(line)] = " "
  THEN trimBlanks(SubSeq(line, 1, Len(line) - 1))
  ELSE line

\* read NAME: the line without the surrounding IFS white space
read(line) == trimBlanks(line)

RECURSIVE words(_)
\* the fields word splitting makes of an unquoted expansion
words(str) ==
  LET t == trimBlanks(str)
      n == IF \E i \in 1..Len(t) : t[i] = " "
           THEN (CHOOSE i \in 1..Len(t) :
                   t[i] = " " /\ \A j \in 1..(i - 1) : t[j] # " ") - 1
           ELSE Len(t)
  IN IF t = <<>> THEN <<>>
     ELSE <<SubSeq(t, 1, n)>> \o words(SubSeq(t, n + 1, Len(t)))

\* one simple command run by a script and the state it leaves
run(sh, cmd, args, st) ==
  [sh EXCEPT !.executed = Append(@, [cmd |-> cmd, args |-> args]),
             !.statuses = Append(@, st),
             !.status = st]

shellStart(line) ==
  [line |-> line, commit_msg |-> <<>>, tag_name |-> <<>>, confirm |-> <<>>,
   answer |-> <<>>, executed |-> <<>>, statuses |-> <<>>, status |-> 0]

\* the variables no shell script touches
pageVars == <<script, pc, present, disabled, disabled0, text, classes,
              styleDisplay, value, error, ticks, config, state,
              countdownInterval, countdownRaw, countdown, timerInterval,
              warnings, vaCountdown, vaPending, asDefault, allPresent,
              vaSeconds, logout, login>>

\* ----------------------------------------------------------- entrypoint.sh
entrypointMigrate ==
  /\ script = EP
  /\ shell.line = "migrate"
  /\ \E st \in ExitStatuses :
       shell' = [run(shell, "python manage.py migrate", <<>>, st)
                   EXCEPT !.line = "runserver"]
  /\ UNCHANGED pageVars

\* the server is started; the script waits for it
entrypointRunserver ==
  /\ script = EP
  /\ shell.line = "runserver"
  /\ shell' = [shell EXCEPT
                 !.executed = Append(@,
                    [cmd |-> "python manage.py runserver",
                     args |-> <<<<"0.0.0.0:8000">>>>]),
                 !.line = "serving"]
  /\ UNCHANGED pageVars

\* the server ends and the script ends with the status of its last command
entrypointExit ==
  /\ script = EP
  /\ shell.line = "serving"
  /\ \E st \in ExitStatuses :
       shell' = [shell EXCEPT !.statuses = Append(@, st), !.status = st,
                              !.line = "exited"]
  /\ UNCHANGED pageVars

\* --------------------------------------------- commit/tag helper (bash)
\* the git commands of the then-branch, in script order
gitCommands(sh) ==
  <<[cmd |-> "git add", args |-> <<<<".">>>>],
    [cmd |-> "git commit -m", args |-> <<sh.commit_msg>>],
    [cmd |-> "git push origin", args |-> <<<<"main">>>>],
    [cmd |-> "git tag", args |-> words(sh.tag_name)],
    [cmd |-> "git push origin", args |-> words(sh.tag_name)]>>

\* confirm answering anything but "n"
confirmedUnlessNo(sh) == sh.confirm # <<"n">>

\* [ "$confirm" = "y" ]
confirmed(sh) == sh.confirm = <<"y">>

commitTagReadMessage ==
  /\ script = CT
  /\ shell.line = "read commit_msg"
  /\ \E line \in TypedLines({"m", " "}, MaxNameLen) :
       shell' = [shell EXCEPT !.commit_msg = read(line), !.line = "read tag_name"]
  /\ UNCHANGED pageVars

commitTagReadTag ==
  /\ script = CT
  /\ shell.line = "read tag_name"
  /\ \E line \in TypedLines({"v", " "}, MaxNameLen) :
       shell' = [shell EXCEPT !.tag_name = read(line), !.line = "read confirm"]
  /\ UNCHANGED pageVars

commitTagReadConfirm ==
  /\ script = CT
  /\ shell.line = "read confirm"
  /\ \E line \in TypedLines({"y", "n", " "}, MaxLineLen) :
       shell' = [shell EXCEPT !.answer = line, !.confirm = read(line),
                              !.line = "if"]
  /\ UNCHANGED pageVars

commitTagIf ==
  /\ script = CT
  /\ shell.line = "if"
  /\ shell' = [shell EXCEPT !.line = IF confirmed(shell) THEN "then" ELSE "else"]
  /\ UNCHANGED pageVars

\* the next git command of the then-branch; its failure stops nothing
commitTagGit ==
  /\ script = CT
  /\ shell.line = "then"
  /\ Len(shell.executed) < Len(gitCommands(shell))
  /\ \E st \in ExitStatuses :
       LET c == gitCommands(shell)[Len(shell.executed) + 1]
       IN shell' = run(shell, c.cmd, c.args, st)
  /\ UNCHANGED pageVars

\* echo "Done ..." and the end of the script
commitTagDone ==
  /\ script = CT
  /\ shell.line = "then"
  /\ Len(shell.executed) = Len(gitCommands(shell))
  /\ shell' = [shell EXCEPT !.status = 0, !.line = "exited"]
  /\ UNCHANGED pageVars

\* echo "Cancelled." and the end of the script
commitTagCancelled ==
  /\ script = CT
  /\ shell.line = "else"
  /\ shell' = [shell EXCEPT !.status = 0, !.line = "exited"]
  /\ UNCHANGED pageVars

\* ---------------------------------------------------------------- the page
text0(sc) == [i \in Ids(sc) |-> ServerText]
classes0(sc) == [i \in Ids(sc) |-> {}]

InitPage(sc) ==
  /\ script = sc
  /\ disabled0 \in [Controls(sc) -> BOOLEAN]
  /\ disabled = disabled0
  /\ text = text0(sc)
  /\ error = FALSE
  /\ ticks = 0
  /\ asDefault = NoTwin
  /\ allPresent = NoTwin
  /\ sc # VA => vaSeconds = 0
  /\ sc # AL => logout = NoLogout
  /\ sc # LG => login = NoLogin
  /\ sc \notin {EP, CT} => shell = NoShell

\* the variables of the scripts the page does not load
Idle(vs) ==
  /\ "config" \in vs => config = NoConfig
  /\ "state" \in vs => state = NoState /\ countdownInterval = "undefined"
  /\ "countdown" \in vs =>
        /\ countdownRaw = Undefined
        /\ countdown = 0
        /\ timerInterval = "undefined"
        /\ warnings = 0
  /\ "va" \in vs => vaCountdown = 0 /\ vaPending = 0
  /\ "form" \in vs => styleDisplay = "" /\ value = <<>>

InitTSC ==
  /\ InitPage(TSC)
  /\ present \in SUBSET TscIds
  /\ classes = classes0(TSC)
  /\ pc = "loaded"
  /\ config \in Configs
  /\ state = NoState
  /\ countdownInterval = "undefined"
  /\ Idle({"countdown", "va", "form"})

InitTT ==
  /\ InitPage(TT)
  /\ present \in SUBSET TtIds
  /\ classes = classes0(TT)
  /\ pc = "script"
  /\ countdownRaw \in (IF "token-timer" \in present THEN RawValues ELSE {Undefined})
  /\ countdown = 0
  /\ timerInterval = "undefined"
  /\ warnings = 0
  /\ Idle({"config", "state", "va", "form"})

InitVA ==
  /\ InitPage(VA)
  /\ present \in SUBSET VaIds
  /\ classes = classes0(VA)
  /\ pc = "loaded"
  /\ vaSeconds \in VaCountdowns
  /\ vaCountdown = vaSeconds
  /\ vaPending = 0
  /\ Idle({"config", "state", "countdown", "form"})

InitPC ==
  /\ InitPage(PC)
  /\ present \in {P \in SUBSET PcIds : Cardinality(PcIds \ P) <= MaxChecklistMissing}
  /\ classes = classes0(PC)
  /\ pc = "loaded"
  /\ styleDisplay = ""
  /\ value = <<>>
  /\ Idle({"config", "state", "countdown", "va"})

InitUD ==
  /\ InitPage(UD)
  /\ present \in SUBSET UdIds
  /\ classes \in [UdIds -> {{}, {"hidden"}}]
  /\ classes[".user-avatar"] = {}
  /\ pc = "running"
  /\ Idle({"config", "state", "countdown", "va", "form"})

\* a process running a shell script: no page, no elements
InitShell(sc, line) ==
  /\ InitPage(sc)
  /\ present = {}
  /\ classes = classes0(sc)
  /\ pc = "running"
  /\ shell = shellStart(line)
  /\ Idle({"config", "state", "countdown", "va", "form"})

InitEP == InitShell(EP, "migrate")

InitCT == InitShell(CT, "read commit_msg")

InitAL ==
  /\ InitPage(AL)
  /\ present = {}
  /\ classes = classes0(AL)
  /\ pc = "loaded"
  /\ logout = logoutStart
  /\ Idle({"config", "state", "countdown", "va", "form"})

InitLG ==
  /\ InitPage(LG)
  /\ present \in SUBSET LgIds
  /\ classes = classes0(LG)
  /\ pc = "loaded"
  /\ login = loginStart
  /\ Idle({"config", "state", "countdown", "va", "form"})

Init ==
  \/ InitTSC \/ InitTT \/ InitVA \/ InitPC \/ InitUD
  \/ InitAL \/ InitLG \/ InitEP \/ InitCT

Next ==
  \/ initTokenStatusChecker
  \/ tscInterval
  \/ tokenTimerScript
  \/ initTokenTimer
  \/ ttInterval
  \/ initVerifyAccountFlow
  \/ vaTimeout
  \/ passwordChecklistLoaded
  \/ passwordInput
  \/ toggleUserMenu
  \/ documentClick
  \/ autoLogoutLoad
  \/ autoLogoutElapse
  \/ autoLogoutActivity
  \/ autoLogoutTimeout
  \/ loginLoaded
  \/ mousedown
  \/ mouseup
  \/ mouseleave
  \/ touchstart
  \/ touchend
  \/ touchcancel
  \/ entrypointMigrate
  \/ entrypointRunserver
  \/ entrypointExit
  \/ commitTagReadMessage
  \/ commitTagReadTag
  \/ commitTagReadConfirm
  \/ commitTagIf
  \/ commitTagGit
  \/ commitTagDone
  \/ commitTagCancelled

Spec == Init /\ [][Next]_vars
\* ================================================================== claims

\* C1 (as claimed): in token_status_checker.js, for initialCountdown = n >= 0
\* and any configured flags, after exactly n interval callbacks (none when
\* n = 0) the state is isExpired, not canVerify, canResend, and the verify
\* and resend controls are rendered from it.
C1_ExpiredAfterNTicks ==
  (script = TSC /\ pc = "running" /\ config.initialCountdown >= 0
     /\ ticks = config.initialCountdown)
  => /\ state.isExpired
     /\ ~state.canVerify
     /\ state.canResend
     /\ ("verify-code-button" \in present => disabled["verify-code-button"])
     /\ ("resend-code-button" \in present => ~disabled["resend-code-button"])

\* C2 (as claimed): for initialCountdown = n > 0, after k < n interval
\* callbacks timeLeft = n - k and isExpired is false.
C2_NotExpiredBeforeN ==
  (script = TSC /\ pc = "running" /\ config.initialCountdown > 0
     /\ ticks < config.initialCountdown)
  => /\ state.timeLeft = config.initialCountdown - ticks
     /\ ~state.isExpired

\* C2 (amended): for initialCountdown = n > 0, after k < n interval callbacks
\* timeLeft = n - k and isExpired still has the value the config supplied.
C2_RemainingTime ==
  (script = TSC /\ pc = "running" /\ config.initialCountdown > 0
     /\ ticks < config.initialCountdown)
  => /\ state.timeLeft = config.initialCountdown - ticks
     /\ state.isExpired = config.isExpired

C2_Witness ==
  /\ script = TSC
  /\ pc = "running"
  /\ ~config.isExpired
  /\ ticks = 2
  /\ ticks < config.initialCountdown
  /\ state.timeLeft = 1

\* C3: in token_timer.js with the display and both buttons present and
\* data-seconds the decimal string of n >= 0: while fewer than n interval
\* callbacks have run, resend is disabled and verify enabled; once n have
\* run, the display shows the expired message, resend is enabled and verify
\* is disabled.
C3_TokenTimerButtons ==
  (script = TT /\ pc = "running" /\ present = TtIds
     /\ countdownRaw # <<>>
     /\ \A i \in 1..Len(countdownRaw) : IsDigit(countdownRaw[i]))
  => LET n == decimalValue(countdownRaw, 0)
     IN /\ ticks < n => /\ disabled["resend-btn"]
                        /\ ~disabled["verify-btn"]
                        /\ text["token-timer"] # ExpiredMessage
        /\ ticks >= n => /\ text["token-timer"] = ExpiredMessage
                         /\ ~disabled["resend-btn"]
                         /\ disabled["verify-btn"]

C3_Witness ==
  /\ script = TT
  /\ pc = "running"
  /\ present = TtIds
  /\ countdownRaw = <<"2">>
  /\ ticks = 2
  /\ text["token-timer"] = ExpiredMessage
  /\ ~disabled["resend-btn"]

\* C4 (as claimed): in token_timer.js with the display present and n >= 0 the
\* expiry branch of updateTimer runs exactly once: at most one warning element
\* is ever appended, and once it has run no countdown interval is active.
C4_ExpiryBranchOnce ==
  (script = TT /\ "token-timer" \in present /\ pc = "running"
     /\ parseCountdown(countdownRaw) >= 0)
  => /\ warnings <= 1
     /\ warnings >= 1 => timerInterval # "active"
\* C5 (as claimed): a data-seconds value that is not a non-negative decimal
\* integer, such as "-2" or "2a", is replaced by the default of 180 seconds.
C5_InvalidReplacedByDefault ==
  (script = TT /\ pc = "loaded"
     /\ ~(countdownRaw # <<>>
            /\ \A i \in 1..Len(countdownRaw) : IsDigit(countdownRaw[i])))
  => countdown = DefaultSeconds

\* C5 (amended): data-seconds is replaced by 180 only when it does not start,
\* after blanks and at most one sign, with a decimal digit; otherwise the
\* countdown is the signed value of its leading digits, so "-2" gives -2 and
\* "2a" gives 2.
C5_DefaultOnlyWithoutLeadingInteger ==
  (script = TT /\ pc = "loaded")
  => LET raw == countdownRaw
         b == CHOOSE k \in 0..Len(raw) :
                /\ \A i \in 1..k : raw[i] = " "
                /\ k = Len(raw) \/ raw[k + 1] # " "
         sg == IF b < Len(raw) /\ raw[b + 1] \in {"+", "-"} THEN 1 ELSE 0
         first == b + sg + 1
         r == CHOOSE k \in 0..(Len(raw) - first + 1) :
                /\ \A i \in 0..(k - 1) : IsDigit(raw[first + i])
                /\ first + k > Len(raw) \/ ~IsDigit(raw[first + k])
         mag[k \in 0..r] ==
           IF k = 0 THEN 0 ELSE (mag[k - 1] * 10) + DigitVal(raw[first + k - 1])
     IN IF r = 0 THEN countdown = DefaultSeconds
        ELSE IF sg = 1 /\ raw[b + 1] = "-" THEN countdown = 0 - mag[r]
        ELSE countdown = mag[r]

C5_Witness ==
  /\ script = TT
  /\ pc = "loaded"
  /\ countdownRaw = <<"-", "2">>
  /\ countdown = 0 - 2

\* C6: in token_timer.js, with data-seconds absent or a string no integer can
\* be parsed from, the controller is, after every number of interval
\* callbacks, in the state (countdown, display text, button states, classes,
\* interval) of the controller started on the same page with
\* data-seconds = "180".
C6_NonNumericBehavesAsDefault ==
  (script = TT /\ pc # "script"
     /\ LET raw == countdownRaw
            sg == IF raw # <<>> /\ raw[1] \in {"+", "-"} THEN 1 ELSE 0
        IN \/ raw = Undefined
           \/ Len(raw) <= sg
           \/ ~IsDigit(raw[sg + 1]))
  => ttNow = asDefault

C6_Witness ==
  /\ script = TT
  /\ pc = "running"
  /\ present = TtIds
  /\ countdownRaw = <<"a", "2">>
  /\ ticks = DefaultSeconds
  /\ text["token-timer"] = ExpiredMessage

\* C7 (as claimed): in token_status_checker.js and token_timer.js, whichever
\* elements are missing, no handler throws and every control that is present
\* has, after each number of callbacks, the disabled value it has when all
\* elements are present.
C7_MissingElementsIgnored ==
  (script \in {TSC, TT} /\ pc = "running")
  => /\ ~error
     /\ \A e \in present \cap Controls(script) :
          disabled[e] = allPresent.disabled[e]

\* C7 (amended): no handler throws; in token_status_checker.js, and in
\* token_timer.js when the display is present, every control that is present
\* has the disabled value it has when all elements are present; when the
\* display of token_timer.js is missing, initTokenTimer changes nothing and
\* starts no interval.
C7_MissingElementsTolerated ==
  (script \in {TSC, TT} /\ pc = "running")
  => /\ ~error
     /\ script = TSC =>
          \A e \in present \cap Controls(TSC) :
            disabled[e] = allPresent.disabled[e]
     /\ (script = TT /\ "token-timer" \in present) =>
          \A e \in present \cap Controls(TT) :
            disabled[e] = allPresent.disabled[e]
     /\ (script = TT /\ "token-timer" \notin present) =>
          /\ disabled = disabled0
          /\ timerInterval = "undefined"
          /\ ticks = 0

C7_Witness ==
  /\ script = TSC
  /\ pc = "running"
  /\ present = {"verify-code-button"}
  /\ config.canVerify
  /\ ~disabled0["verify-code-button"]
  /\ ticks = 2
  /\ disabled["verify-code-button"]

\* C8 (as claimed): no handler of any script ends in an error when an element
\* it looks up is absent.
C8_AbsentElementSkipped == ~error

C10_ExpiredIsTerminal ==
  [][/\ (script = TSC /\ pc = "running" /\ state.isExpired
           /\ ~state.canVerify /\ state.canResend)
          => /\ state' = state
             /\ disabled' = disabled
             /\ countdownInterval # "active" => countdownInterval' # "active"
     /\ (script = TT /\ pc = "running" /\ text["token-timer"] = ExpiredMessage)
          => /\ countdown' = countdown
             /\ disabled' = disabled
             /\ timerInterval # "active" => timerInterval' # "active"]_vars

\* C10 (amended): once the countdown has run out (timeLeft <= 0 with the
\* expired flags; in token_timer.js the expired message shown), no later step
\* changes the remaining time, re-enables verify, disables resend or starts a
\* countdown interval; expired flags supplied by the config together with a
\* positive countdown never revert either, but that countdown still runs.
C10_RunOutIsTerminal ==
  [][/\ (script = TSC /\ pc = "running" /\ state.isExpired
           /\ ~state.canVerify /\ state.canResend)
          => /\ state'.isExpired /\ ~state'.canVerify /\ state'.canResend
             /\ state.timeLeft <= 0 => state' = state
             /\ disabled' = disabled
             /\ countdownInterval # "active" => countdownInterval' # "active"
     /\ (script = TT /\ pc = "running" /\ text["token-timer"] = ExpiredMessage)
          => /\ countdown' = countdown
             /\ disabled' = disabled
             /\ timerInterval # "active" => timerInterval' # "active"]_vars

C10_Witness ==
  /\ script = TSC
  /\ pc = "running"
  /\ ~config.isExpired
  /\ ticks = 3
  /\ state.isExpired
  /\ state.timeLeft = 0
  /\ countdownInterval = "cleared"
\* C11: for a valid initial value n >= 0, in token_timer.js (countdown),
\* token_status_checker.js (state.timeLeft) and verify_account.js
\* (countdown) the remaining seconds stay within 0..n in every state, never
\* increase from one state to the next, and change only by exactly -1.
C11_RemainingSecondsMonotone ==
  /\ [](
       /\ (script = TSC /\ pc = "running" /\ config.initialCountdown >= 0)
            => state.timeLeft \in 0..config.initialCountdown
       /\ (script = TT /\ pc # "script" /\ countdownRaw # <<>>
             /\ \A i \in 1..Len(countdownRaw) : IsDigit(countdownRaw[i]))
            => countdown \in 0..decimalValue(countdownRaw, 0)
       /\ (script = VA) => vaCountdown \in 0..vaSeconds
       )
  /\ [][
       /\ (script = TSC /\ pc = "running")
            => state'.timeLeft \in {state.timeLeft, state.timeLeft - 1}
       /\ (script = TT /\ pc # "script")
            => countdown' \in {countdown, countdown - 1}
       /\ (script = VA) => vaCountdown' \in {vaCountdown, vaCountdown - 1}
       ]_vars

C11_Witness ==
  /\ script = VA
  /\ pc = "running"
  /\ "timer" \in present
  /\ vaSeconds = 3
  /\ ticks = 2
  /\ vaCountdown = 0
\* the command names of the then-branch in script order
C12_Names(cmds) == [i \in 1..Len(cmds) |-> cmds[i].cmd]

C12_Asked == script = CT /\ shell.line \in {"if", "then", "else", "exited"}

\* C12 (as claimed): in the commit/tag helper, when the line typed at the
\* confirmation prompt is anything other than exactly "y" no git command is
\* executed, and when it is "y" the five git commands are executed in script
\* order.
C12_AnswerExactlyY ==
  C12_Asked =>
    /\ shell.answer # <<"y">> => shell.executed = <<>>
    /\ (shell.answer = <<"y">> /\ shell.line = "exited")
         => shell.executed = gitCommands(shell)

\* C12 (amended): the decision is taken on $confirm, which is the typed line
\* without its surrounding white space: when $confirm is not "y" no git
\* command is ever executed; when it is "y" the commands executed so far are
\* a prefix of git add, git commit, git push origin main, git tag, git push
\* origin <tag>, and all five have run, in that order, when the script ends,
\* whatever their exit statuses.
C12_ConfirmedRunsAllInOrder ==
  /\ script = CT /\ ~C12_Asked => shell.executed = <<>>
  /\ C12_Asked =>
       /\ shell.confirm # <<"y">> => shell.executed = <<>>
       /\ shell.confirm = <<"y">> =>
            /\ Len(shell.executed) <= Len(gitCommands(shell))
            /\ shell.executed
                 = SubSeq(gitCommands(shell), 1, Len(shell.executed))
            /\ shell.line = "exited" =>
                 C12_Names(shell.executed)
                   = <<"git add", "git commit -m", "git push origin",
                       "git tag", "git push origin">>

C12_Witness ==
  /\ script = CT /\ shell.line = "exited"
  /\ shell.answer = <<"y", " ">>
  /\ Len(shell.executed) = 5
  /\ shell.statuses[3] = 1

\* C13 (as claimed): a shell script that has ended after one of its commands
\* failed has ended with the non-zero status of a failed command.
C13_ExitStatusPropagated ==
  (script \in {EP, CT} /\ shell.line = "exited"
     /\ \E i \in 1..Len(shell.statuses) : shell.statuses[i] # 0)
    => \E i \in 1..Len(shell.statuses) :
         shell.statuses[i] # 0 /\ shell.status = shell.statuses[i]

\* C14 (as claimed): the entrypoint has started the server only after the
\* migrate command ended with status 0.
C14_ServerOnlyAfterMigration ==
  (script = EP /\ \E i \in 1..Len(shell.executed) :
                    shell.executed[i].cmd = "python manage.py runserver")
    => /\ shell.executed[1].cmd = "python manage.py migrate"
       /\ shell.statuses[1] = 0
\* C15: on a page with the auto-logout script, after the load event at most
\* one inactivity timeout is pending; until the redirect exactly one is
\* pending and it is due a full inactivity limit after the later of the load
\* and the most recent activity event; and the redirect to the logout route
\* has happened only when at least that limit had elapsed since then.
C15_LogoutAfterFullInactivity ==
  script = AL =>
    /\ Cardinality(logout.timeouts) <= 1
    /\ pc = "loaded" => logout.timeouts = {} /\ logout.href = ""
    /\ (pc = "running" /\ logout.href = "") =>
         \E t \in logout.timeouts :
           /\ logout.timeouts = {t}
           /\ t.id = logout.inactivityTimer
           /\ t.due = logout.lastActivity + inactivityLimit
    /\ logout.href # "" =>
         /\ logout.href = LogoutUrl
         /\ logout.now - logout.lastActivity >= inactivityLimit
         /\ logout.timeouts = {}

C15_Witness ==
  /\ script = AL
  /\ logout.href = LogoutUrl
  /\ logout.events = 2
  /\ logout.lastActivity = 2 * inactivityLimit - 1
  /\ logout.now = 3 * inactivityLimit - 1
\* C16: in verify_account.js started with countdown = n >= 0 and the timer
\* element present, at most one timeout is pending, the timeouts scheduled
\* (run or pending) never exceed n, one is pending exactly while fewer than n
\* have run, the resend button is disabled and the display shows the
\* remaining time until then, and once the n-th has run the display shows the
\* re-send message, the resend button is enabled and nothing is pending.
C16_TimeoutChainEnds ==
  (script = VA /\ pc = "running" /\ "timer" \in present) =>
    /\ vaPending \in {0, 1}
    /\ ticks + vaPending <= vaSeconds
    /\ vaPending = 1 <=> ticks < vaSeconds
    /\ ticks < vaSeconds =>
         /\ "resendButton" \in present => disabled["resendButton"]
         /\ text["timer"] = vaTimeText(vaSeconds - ticks)
    /\ ticks = vaSeconds =>
         /\ text["timer"] = <<"You can now re-send the code.">>
         /\ "resendButton" \in present => ~disabled["resendButton"]
         /\ vaPending = 0
    /\ ~error

C16_Witness ==
  /\ script = VA /\ pc = "running" /\ present = VaIds
  /\ vaSeconds = VerifyAccountSeconds
  /\ ticks = VerifyAccountSeconds
  /\ ~disabled["resendButton"]
  /\ vaPending = 0

\* the configuration C17 gives initTokenStatusChecker
C17_Config(n) == [canVerify |-> TRUE, canResend |-> FALSE, isExpired |-> FALSE,
                  initialCountdown |-> n]

RECURSIVE C17_TokenTimerAfter(_, _, _)
\* token_timer.js with data-seconds = n, all elements present and the resend
\* button rendered with disabled = b, after initTokenTimer and k periods
C17_TokenTimerAfter(n, k, b) ==
  IF k = 0
  THEN ttInit(ttNew(toString(n), [c \in Controls(TT) |-> b], text0(TT),
                    classes0(TT)), TtIds)
  ELSE runInterval(C17_TokenTimerAfter(n, k - 1, b), TtIds)

\* one timeout period of verify_account.js: the callback runs if scheduled
C17_VaPeriod(s) ==
  IF s.pending > 0 THEN vaUpdateTimer([s EXCEPT !.pending = @ - 1], VaIds)
  ELSE s

RECURSIVE C17_VerifyAccountAfter(_, _, _)
\* verify_account.js with countdown = n, all elements present, after
\* initVerifyAccountFlow and k periods
C17_VerifyAccountAfter(n, k, b) ==
  IF k = 0
  THEN vaInit([countdown |-> n, pending |-> 0,
               disabled |-> [c \in Controls(VA) |-> b], text |-> text0(VA),
               thrown |-> FALSE], VaIds)
  ELSE C17_VaPeriod(C17_VerifyAccountAfter(n, k - 1, b))

\* the periods a state of token_status_checker.js stands for: the callbacks
\* run so far and, once no interval is active, every later period
C17_Periods ==
  IF countdownInterval = "active" THEN {ticks}
  ELSE ticks..(MaxCountdown + 1)

\* C17 (as claimed): for every n >= 0 and k >= 0, after initialization with n
\* and k timer periods the resend control is enabled in token_status_checker.js
\* called with {canVerify: true, canResend: false, isExpired: false,
\* initialCountdown: n} exactly when it is in token_timer.js and in
\* verify_account.js.
C17_SameResendState ==
  (script = TSC /\ pc = "running" /\ present = TscIds
     /\ config.initialCountdown >= 0
     /\ config = C17_Config(config.initialCountdown))
  => \A k \in C17_Periods, b \in BOOLEAN :
       LET n == config.initialCountdown
           enabled == ~disabled["resend-code-button"]
       IN /\ enabled = ~C17_TokenTimerAfter(n, k, b).disabled["resend-btn"]
          /\ enabled = ~C17_VerifyAccountAfter(n, k, b).disabled["resendButton"]

\* C18 (as claimed): on the login page, whenever no mouse press and no touch
\* on the eye icon is in progress the password input has type 'password'.
C18_ShownOnlyWhilePressed ==
  (script = LG /\ pc = "running" /\ ~login.mouse /\ login.touches = 0)
    => login.type = "password"

\* the rule of a checklist item, as the checklist states it
C19_Rule(key, val) ==
  CASE key = "length" -> Len(val) >= 8
    [] key = "uppercase" -> \E i \in 1..Len(val) : val[i] \in UpperCase
    [] key = "lowercase" -> \E i \in 1..Len(val) : val[i] \in LowerCase
    [] key = "number" -> \E i \in 1..Len(val) : IsDigit(val[i])
    [] key = "symbol" ->
         \E i \in 1..Len(val) :
           val[i] \notin UpperCase \cup LowerCase /\ ~IsDigit(val[i])

\* C19: with every element of the checklist present, after each input event
\* each item has the class 'valid' exactly when its rule holds for the
\* value typed, and the container has display 'none' when all five rules
\* hold and 'block' otherwise, whatever the page showed before the event.
C19_ChecklistFollowsInput ==
  [][(script = PC /\ pc = "running" /\ present = PcIds) =>
       /\ \A i \in 1..Len(ChecklistKeys) :
            ("valid" \in classes'[CheckId(ChecklistKeys[i])])
              <=> C19_Rule(ChecklistKeys[i], value')
       /\ styleDisplay' =
            IF \A i \in 1..Len(ChecklistKeys) :
                 C19_Rule(ChecklistKeys[i], value')
            THEN "none" ELSE "block"
       /\ ~error']_vars

C19_Witness ==
  /\ script = PC /\ pc = "running" /\ present = PcIds
  /\ Len(value) = 8
  /\ \A i \in 1..Len(ChecklistKeys) : C19_Rule(ChecklistKeys[i], value)
  /\ styleDisplay = "none"
  /\ \A i \in 1..Len(ChecklistKeys) :
       "valid" \in classes[CheckId(ChecklistKeys[i])]
====
